---- MODULE Spec2Model ----
(***************************************************************************)
(* Model of the pamir-ai-i2c-sound codec control driver (TLV320AIC3204     *)
(* over I2C): the probe-time initialization sequence, the volume and       *)
(* input-gain set/get functions with their register curves, and the sysfs  *)
(* handlers volume_level, input_gain and register_access.                  *)
(*                                                                         *)
(* Every SMBus byte transaction is one step of the caller that issues it,  *)
(* and it either succeeds or returns a negative errno chosen by the bus.   *)
(***************************************************************************)
EXTENDS Integers, Sequences, FiniteSets, TLC

VARIABLES
    regs,     \* codec register file: <<page, register>> -> byte
    page,     \* page currently selected in the codec (its register 0x00)
    data,     \* struct pamir_ai_i2c_sound_data of the bound device
    sysfs,    \* TRUE while the attribute group exists
    bound,    \* TRUE once probe has returned 0, until remove
    th,       \* per caller: the handler it runs, its locals and its bus log
    nops,     \* handlers started so far
    faults    \* bus transactions that returned an error so far

vars == <<regs, page, data, sysfs, bound, th, nops, faults>>

----------------------------------------------------------------------------
(* Bounds of the exploration *)

\* handlers (probe, remove and sysfs accesses) started in one run
MaxOps == 3
\* bus transactions that fail in one run
MaxFaults == 1
\* how far below 0 and above 100 the percent inputs of the curve runs reach
CurveMargin == 160
\* handlers started in one concurrent run, probe included
MaxConcOps == 2

----------------------------------------------------------------------------
(* errno values returned by the kernel services the driver calls *)

EIO == -5
ENOMEM == -12
EINVAL == -22
ERANGE == -34
EREMOTEIO == -121

\* errors i2c_smbus_{read,write}_byte_data may return
BusErrors == {EIO, EREMOTEIO}

----------------------------------------------------------------------------
(* C arithmetic *)

u8(x) == x % 256

\* C integer division truncates toward zero
CDiv(a, b) == IF a >= 0 THEN a \div b ELSE -((-a) \div b)

Min(a, b) == IF a <= b THEN a ELSE b
Max(a, b) == IF a >= b THEN a ELSE b

\* number of characters "%d" prints for n
RECURSIVE Digits(_)
Digits(m) == IF m < 10 THEN 1 ELSE 1 + Digits(m \div 10)

DecLen(n) == IF n < 0 THEN 1 + Digits(-n) ELSE Digits(n)

----------------------------------------------------------------------------
(* The initialization table *)

init_sequence == <<
    <<0,0>>, <<1,1>>,
    <<0,0>>, <<11,129>>, <<12,132>>, <<18,129>>, <<19,132>>,
    <<25,7>>, <<26,129>>, <<52,16>>,
    <<0,1>>, <<2,9>>, <<1,8>>, <<2,1>>, <<33,0>>, <<123,1>>,
    <<0,1>>, <<20,37>>, <<12,8>>, <<13,8>>, <<14,8>>, <<15,8>>, <<9,60>>,
    <<16,7>>, <<17,7>>, <<18,7>>, <<19,7>>,
    <<0,1>>, <<52,128>>, <<54,128>>, <<55,128>>, <<57,128>>, <<59,15>>, <<60,15>>,
    <<0,0>>, <<81,192>>, <<82,0>>,
    <<0,0>>, <<83,35>>, <<84,35>>, <<65,48>>, <<66,48>>,
    <<0,0>>, <<65,0>>, <<66,0>>, <<63,214>>, <<64,0>> >>

----------------------------------------------------------------------------
(* The codec as the driver sees it: a paged register file behind the bus.  *)
(* Register 0x00 of every page is the page selector.                       *)

Pages == {0, 1}
RegAddrs == {init_sequence[i][1] : i \in 1..Len(init_sequence)} \ {0}

\* a bus transaction a handler asks for
W(reg, val) == [rw |-> "w", reg |-> reg, val |-> val]
R(reg) == [rw |-> "r", reg |-> reg, val |-> 0]

DevRead(rg, pg, reg) ==
    IF reg = 0 THEN pg
    ELSE IF <<pg, reg>> \in DOMAIN rg THEN rg[<<pg, reg>>] ELSE 0

DevWriteRegs(rg, pg, reg, val) ==
    IF reg # 0 /\ <<pg, reg>> \in DOMAIN rg
    THEN [rg EXCEPT ![<<pg, reg>>] = val] ELSE rg

DevWritePage(pg, reg, val) == IF reg = 0 THEN val ELSE pg

\* the page selected after the writes ws[1..n] all succeeded
PageAfter(pg, ws, n) ==
    LET sel == {m \in 1..n : ws[m].reg = 0}
    IN  IF sel = {} THEN pg
        ELSE ws[CHOOSE m \in sel : \A x \in sel : x <= m].val

\* the register file after the writes ws[1..n] all succeeded: each register
\* holds the last value written to it while its page was selected
RegsAfter(rg, pg, ws, n) ==
    [a \in DOMAIN rg |->
        LET hit == {m \in 1..n : ws[m].reg = a[2] /\ PageAfter(pg, ws, m - 1) = a[1]}
        IN  IF hit = {} THEN rg[a]
            ELSE ws[CHOOSE m \in hit : \A x \in hit : x <= m].val]

\* the device, as <<regs, page>>, after the writes ws[1..n] all succeeded
ApplyWrites(rg, pg, ws, n) == <<RegsAfter(rg, pg, ws, n), PageAfter(pg, ws, n)>>

----------------------------------------------------------------------------
(* Volume curve: pamir_ai_i2c_sound_set_volume / _get_volume               *)

\* the u8 parameter after the range check at the top of set_volume; the
\* "< 0" branch can never be taken on an unsigned value
set_volume_clamp(volume) == IF volume > 100 THEN 100 ELSE volume

\* a curve that never sets the mute bit
set_volume_hp_val_nomute(volume) ==
    IF volume <= 20 THEN u8(58 - CDiv((volume - 1) * (58 - 0), 19))
    ELSE IF volume <= 60 THEN u8(CDiv((volume - 21) * 20, 39))
    ELSE u8(20 + CDiv((volume - 61) * (29 - 20), 39))

\* a curve whose middle range divides by 40
set_volume_hp_val_div40(volume) ==
    IF volume = 0 THEN 64
    ELSE IF volume <= 20 THEN u8(58 - CDiv((volume - 1) * (58 - 0), 19))
    ELSE IF volume <= 60 THEN u8(CDiv((volume - 21) * 20, 40))
    ELSE u8(20 + CDiv((volume - 61) * (29 - 20), 39))

\* a curve whose driver gain is at its top from 90 on
set_volume_hp_val_top_at_90(volume) ==
    IF volume = 0 THEN 64
    ELSE IF volume <= 20 THEN u8(58 - CDiv((volume - 1) * (58 - 0), 19))
    ELSE IF volume <= 60 THEN u8(CDiv((volume - 21) * 20, 39))
    ELSE IF volume <= 90 THEN u8(20 + CDiv((volume - 61) * (29 - 20), 29))
    ELSE 29

\* headphone / line-out driver byte (page 1, 0x10..0x13)
set_volume_hp_val(volume) ==
    IF volume = 0 THEN 64
    ELSE IF volume <= 20 THEN u8(58 - CDiv((volume - 1) * (58 - 0), 19))
    ELSE IF volume <= 60 THEN u8(CDiv((volume - 21) * 20, 39))
    ELSE u8(20 + CDiv((volume - 61) * (29 - 20), 39))

\* a curve whose DAC boost starts at 90
set_volume_dac_val_boost_from_90(volume) ==
    IF volume = 0 THEN 0
    ELSE IF volume <= 20 THEN 160
    ELSE IF volume <= 60 THEN 0
    ELSE IF volume >= 90 THEN u8(4 + CDiv((volume - 91) * (16 - 4), 9))
    ELSE 0

\* DAC volume byte (page 0, 0x41/0x42)
set_volume_dac_val(volume) ==
    IF volume = 0 THEN 0
    ELSE IF volume <= 20 THEN 160
    ELSE IF volume <= 60 THEN 0
    ELSE IF volume > 90 THEN u8(4 + CDiv((volume - 91) * (16 - 4), 9))
    ELSE 0

\* the gain bits D5..D0 of a driver byte in dB: 0x00 is 0 dB, 0x1D is +29 dB
\* and 0x3A is -6 dB, a 6-bit two's complement number
hp_gain_dB(g) == IF g < 32 THEN g ELSE g - 64

\* a DAC volume byte in steps of 0.5 dB: 0x00 is 0 dB, 0x01..0x30 are +0.5
\* to +24 dB and 0xFF..0x81 are -0.5 to -63.5 dB
dac_val_half_dB(b) == IF b < 128 THEN b ELSE b - 256


\* a set_volume that writes the DAC group ahead of the headphone group
set_volume_writes_dac_first(hp_val, dac_val) ==
    << W(0, 0), W(65, dac_val), W(66, dac_val),
       W(0, 1), W(16, hp_val), W(17, hp_val), W(18, hp_val), W(19, hp_val) >>

\* the eight writes of set_volume, in program order
set_volume_writes(hp_val, dac_val) ==
    << W(0, 1), W(16, hp_val), W(17, hp_val), W(18, hp_val), W(19, hp_val),
       W(0, 0), W(65, dac_val), W(66, dac_val) >>

\* bit D6 of a headphone driver byte, and its gain bits D5..D0
mute_bit(b) == (b \div 64) % 2 = 1
gain_bits(b) == b % 64

\* a decode that tests the headphone tiers before the DAC boost band
get_volume_decode_hp_first(is_muted, hp_val, dac_val) ==
    IF is_muted THEN 0
    ELSE IF hp_val >= 20 /\ hp_val <= 29
         THEN Min(90, u8(61 + CDiv((hp_val - 20) * 39, 29 - 20)))
    ELSE IF dac_val >= 4 /\ dac_val <= 16
         THEN u8(91 + CDiv((dac_val - 4) * 9, 16 - 4))
    ELSE IF hp_val <= 20 /\ dac_val = 0 THEN u8(21 + CDiv(hp_val * 39, 20))
    ELSE IF hp_val <= 58 /\ dac_val = 160
         THEN u8(1 + CDiv((58 - hp_val) * 19, 58 - 0))
    ELSE 20

\* a decode that does not cap the driver tier at 90
get_volume_decode_no_cap(is_muted, hp_val, dac_val) ==
    IF is_muted THEN 0
    ELSE IF dac_val >= 4 /\ dac_val <= 16
         THEN u8(91 + CDiv((dac_val - 4) * 9, 16 - 4))
    ELSE IF hp_val >= 20 /\ hp_val <= 29
         THEN u8(61 + CDiv((hp_val - 20) * 39, 29 - 20))
    ELSE IF hp_val <= 20 /\ dac_val = 0 THEN u8(21 + CDiv(hp_val * 39, 20))
    ELSE IF hp_val <= 58 /\ dac_val = 160
         THEN u8(1 + CDiv((58 - hp_val) * 19, 58 - 0))
    ELSE IF hp_val <= 20 THEN u8(21 + CDiv(hp_val * 39, 20))
    ELSE 20

\* percent estimate from the mute flag and gain bits read at page 1 0x10
\* and the byte read at page 0 0x41
get_volume_decode(is_muted, hp_val, dac_val) ==
    LET volume ==
            IF is_muted THEN 0
            ELSE IF dac_val >= 4 /\ dac_val <= 16
                 THEN u8(91 + CDiv((dac_val - 4) * 9, 16 - 4))
            ELSE IF hp_val >= 20 /\ hp_val <= 29
                 THEN Min(90, u8(61 + CDiv((hp_val - 20) * 39, 29 - 20)))
            ELSE IF hp_val <= 20 /\ dac_val = 0
                 THEN u8(21 + CDiv(hp_val * 39, 20))
            ELSE IF hp_val >= 0 /\ hp_val <= 58 /\ dac_val = 160
                 THEN u8(1 + CDiv((58 - hp_val) * 19, 58 - 0))
            ELSE IF hp_val <= 0 THEN 21
            ELSE IF hp_val <= 20 THEN u8(21 + CDiv(hp_val * 39, 20))
            ELSE IF hp_val <= 29 THEN u8(61 + CDiv((hp_val - 20) * 39, 29 - 20))
            ELSE 20
    IN  IF volume > 100 THEN 100 ELSE volume

----------------------------------------------------------------------------
(* Input gain curve: pamir_ai_i2c_sound_set_input_gain / _get_input_gain   *)

set_input_gain_clamp(gain) == IF gain > 100 THEN 100 ELSE gain

\* a curve whose low range takes gain = 20 as well
set_input_gain_adc_val_le20(gain) ==
    IF gain <= 20 THEN u8(104 - CDiv(gain * (104 - 41), 19))
    ELSE u8(CDiv((gain - 20) * 40, 80))

\* ADC volume byte (page 0, 0x53/0x54)
set_input_gain_adc_val(gain) ==
    IF gain < 20 THEN u8(104 - CDiv(gain * (104 - 41), 19))
    ELSE u8(CDiv((gain - 20) * 40, 80))

set_input_gain_writes(adc_val) == << W(0, 0), W(83, adc_val), W(84, adc_val) >>



\* a decode whose attenuation range divides by the width of the range of
\* the earlier revision
get_input_gain_decode_div_0x68(raw) ==
    LET adc_val == raw % 128
    IN  IF adc_val >= 104 THEN 0
        ELSE IF adc_val <= 40 THEN u8(20 + CDiv(adc_val * 80, 40))
        ELSE u8(CDiv((104 - adc_val) * 19, 104))

\* a decode whose boost range stops short of 0x28
get_input_gain_decode_boost_below_0x28(raw) ==
    LET adc_val == raw % 128
    IN  IF adc_val >= 104 THEN 0
        ELSE IF adc_val < 40 THEN u8(20 + CDiv(adc_val * 80, 40))
        ELSE u8(CDiv((104 - adc_val) * 19, 104 - 41))


\* a decode that takes the bytes up to 0x30 for the boost range
get_input_gain_decode_boost_to_0x30(raw) ==
    LET adc_val == raw % 128
    IN  IF adc_val >= 104 THEN 0
        ELSE IF adc_val <= 48 THEN u8(20 + CDiv(adc_val * 80, 40))
        ELSE u8(CDiv((104 - adc_val) * 19, 104 - 41))

\* percent estimate from the byte read at page 0 0x53
get_input_gain_decode(raw) ==
    LET adc_val == raw % 128
    IN  IF adc_val >= 104 THEN 0
        ELSE IF adc_val <= 40 THEN u8(20 + CDiv(adc_val * 80, 40))
        ELSE u8(CDiv((104 - adc_val) * 19, 104 - 41))

----------------------------------------------------------------------------
(* Text conversions and range checks of the sysfs handlers                 *)

\* what kstrtoint(buf, 10, &v) makes of a text: it returns 0 and converts
\* the int v, or it returns -EINVAL (not a number) or -ERANGE (no int)
\* and converts nothing
kstrtoint(values) ==
    {[ret |-> 0, v |-> n] : n \in values}
        \cup {[ret |-> e, v |-> 0] : e \in {EINVAL, ERANGE}}

\* the ints a handler's conversion produced, as the handler's input
Converted(conv) == IF conv.ret < 0 THEN <<>> ELSE <<conv.v>>

\* a store handler that hands the parsed int on as it is
store_clamp_none(v) == v

\* the saturation volume_level_store applies before set_volume
volume_level_store_clamp(v) == IF v < 0 THEN 0 ELSE IF v > 100 THEN 100 ELSE v

\* the saturation input_gain_store applies before set_input_gain
input_gain_store_clamp(v) == IF v < 0 THEN 0 ELSE IF v > 100 THEN 100 ELSE v

\* a range check that forgets the value
register_access_store_valid_no_value(pg, reg, value) ==
    ~(pg < 0 \/ pg > 255 \/ reg < 0 \/ reg > 255)

\* range check of register_access_store
register_access_store_valid(pg, reg, value) ==
    ~(pg < 0 \/ pg > 255 \/ reg < 0 \/ reg > 255 \/ value < 0 \/ value > 255)

\* range check of register_access_show
register_access_show_valid(pg, reg) ==
    ~(pg < 0 \/ pg > 255 \/ reg < 0 \/ reg > 255)

\* bytes a store handler reports as consumed: the decimal fields of the
\* text, the blanks between them and the newline
Count(arg) ==
    LET RECURSIVE Sum(_)
        Sum(i) == IF i = 0 THEN 0 ELSE DecLen(arg[i]) + 1 + Sum(i - 1)
    IN  Sum(Len(arg))

\* bytes sprintf(buf, "%d\n", v) writes
sprintf_len(v) == DecLen(v) + 1

----------------------------------------------------------------------------
(* State of a caller *)

NoData == [alloc |-> FALSE, volume |-> 0, input_gain |-> 0]

ZeroRegs == [a \in Pages \X RegAddrs |-> 0]

NoPrev == [op |-> "none", arg |-> <<>>, ret |-> 0, out |-> -1]

IdleThread ==
    [op |-> "none", phase |-> "idle", k |-> 0, arg |-> <<>>,
     is_muted |-> FALSE, hp_val |-> 0, dac_val |-> 0, adc_val |-> 0,
     ret |-> 0, out |-> -1, log |-> <<>>, dev_err |-> <<>>,
     vol0 |-> 0, gain0 |-> 0, regs0 |-> ZeroRegs, page0 |-> 0,
     prev |-> NoPrev]

Free(u) == th[u].phase \in {"idle", "done"}

\* a driver that lets one handler at a time onto the bus
CanStart_one_at_a_time(t) ==
    /\ \A u \in DOMAIN th : th[u].phase \in {"idle", "done"}
    /\ nops < MaxOps

\* a caller may enter a handler whatever the other callers are doing: the
\* driver has no mutex
CanStart(t) == Free(t) /\ nops < MaxOps

\* the record of a handler entered by caller t; vol0, gain0, regs0 and
\* page0 remember the cache and the codec as they were at entry
Begin(t, op, arg) ==
    [IdleThread EXCEPT
        !.op = op, !.arg = arg,
        !.vol0 = data.volume, !.gain0 = data.input_gain,
        !.regs0 = regs, !.page0 = page,
        !.prev = [op |-> th[t].op, arg |-> th[t].arg,
                  ret |-> th[t].ret, out |-> th[t].out]]

Finish(r, ret) == [r EXCEPT !.phase = "done", !.ret = ret]

\* outcomes of one bus transaction: 0, or an error of the bus
Outcomes == {0} \cup (IF faults < MaxFaults THEN BusErrors ELSE {})

\* effect of transaction tx with outcome e on the codec
Xfer(tx, e) ==
    /\ regs' = IF e = 0 /\ tx.rw = "w"
               THEN DevWriteRegs(regs, page, tx.reg, tx.val) ELSE regs
    /\ page' = IF e = 0 /\ tx.rw = "w"
               THEN DevWritePage(page, tx.reg, tx.val) ELSE page
    /\ faults' = IF e = 0 THEN faults ELSE faults + 1

\* what i2c_smbus_{write,read}_byte_data returns for tx with outcome e
Returned(tx, e) ==
    IF e # 0 THEN e
    ELSE IF tx.rw = "r" THEN DevRead(regs, page, tx.reg) ELSE 0

Logged(r, tx, e) ==
    [r EXCEPT !.log = Append(@, [rw |-> tx.rw, reg |-> tx.reg,
                                 val |-> tx.val, ret |-> Returned(tx, e)])]

----------------------------------------------------------------------------
(* pamir_ai_i2c_sound_set_volume and pamir_ai_i2c_sound_set_input_gain     *)

\* entry of set_volume(data, arg): the u8 parameter is range-checked and
\* stored in the cache, and the two bytes are computed
set_volume_cached(arg) == set_volume_clamp(u8(arg))

set_volume_entry(r, arg) ==
    [r EXCEPT !.phase = "set_volume", !.k = 1,
              !.hp_val = set_volume_hp_val(set_volume_cached(arg)),
              !.dac_val = set_volume_dac_val(set_volume_cached(arg))]

set_input_gain_cached(arg) == set_input_gain_clamp(u8(arg))

set_input_gain_entry(r, arg) ==
    [r EXCEPT !.phase = "set_input_gain", !.k = 1,
              !.adc_val = set_input_gain_adc_val(set_input_gain_cached(arg))]

\* a set_volume that goes on to its next write after a failed one
after_set_volume_write_go_on(r, e) ==
    IF r.k < 8 THEN [r EXCEPT !.k = @ + 1]
    ELSE IF r.op = "probe" THEN [r EXCEPT !.phase = "call_set_input_gain", !.k = 0]
    ELSE Finish(r, Count(r.arg))

\* the caller after write k of set_volume returned e
after_set_volume_write(r, e) ==
    IF e < 0 THEN
        IF r.op = "probe" THEN [r EXCEPT !.phase = "unwind", !.ret = e]
        ELSE Finish(r, e)
    ELSE IF r.k < 8 THEN [r EXCEPT !.k = @ + 1]
    ELSE IF r.op = "probe" THEN [r EXCEPT !.phase = "call_set_input_gain", !.k = 0]
    ELSE Finish(r, Count(r.arg))

\* the caller after write k of set_input_gain returned e
after_set_input_gain_write(r, e) ==
    IF e < 0 THEN
        IF r.op = "probe" THEN [r EXCEPT !.phase = "unwind", !.ret = e]
        ELSE Finish(r, e)
    ELSE IF r.k < 3 THEN [r EXCEPT !.k = @ + 1]
    ELSE IF r.op = "probe" THEN Finish(r, 0)
    ELSE Finish(r, Count(r.arg))

set_volume_write(t, e) ==
    /\ th[t].phase = "set_volume"
    /\ e \in Outcomes
    /\ LET tx == set_volume_writes(th[t].hp_val, th[t].dac_val)[th[t].k]
       IN  /\ Xfer(tx, e)
           /\ th' = [th EXCEPT ![t] = after_set_volume_write(Logged(th[t], tx, e), e)]
    /\ UNCHANGED <<data, sysfs, bound, nops>>

set_input_gain_write(t, e) ==
    /\ th[t].phase = "set_input_gain"
    /\ e \in Outcomes
    /\ LET tx == set_input_gain_writes(th[t].adc_val)[th[t].k]
       IN  /\ Xfer(tx, e)
           /\ th' = [th EXCEPT ![t] = after_set_input_gain_write(Logged(th[t], tx, e), e)]
    /\ bound' = (bound \/ (th'[t].op = "probe" /\ th'[t].phase = "done"))
    /\ UNCHANGED <<data, sysfs, nops>>

----------------------------------------------------------------------------
(* pamir_ai_i2c_sound_probe and pamir_ai_i2c_sound_remove                  *)

\* the struct as devm_kzalloc hands it out, its defaults never set
probe_defaults_zeroed == [alloc |-> TRUE, volume |-> 0, input_gain |-> 0]

\* the cache a fresh attach starts from
probe_defaults == [alloc |-> TRUE, volume |-> 50, input_gain |-> 50]

\* probe entered by the driver core; devm_kzalloc may fail
probe(t, alloc_ok) ==
    /\ CanStart(t)
    /\ ~bound /\ ~data.alloc
    /\ nops' = nops + 1
    /\ IF alloc_ok
       THEN /\ data' = probe_defaults
            /\ th' = [th EXCEPT ![t] =
                        [Begin(t, "probe", <<>>) EXCEPT !.phase = "init", !.k = 1]]
       ELSE /\ data' = data
            /\ th' = [th EXCEPT ![t] = Finish(Begin(t, "probe", <<>>), ENOMEM)]
    /\ UNCHANGED <<regs, page, sysfs, bound, faults>>

\* a failure message that leaves the value out
probe_dev_err_no_value(reg, val, ret) == <<reg, 0, ret>>

\* what the dev_err of the initialization loop prints for a failed step:
\* "Failed to write reg 0x%02x with value 0x%02x: %d"
probe_dev_err(reg, val, ret) == <<reg, val, ret>>

\* a loop that leaves out every other step of the table
after_init_write_skip(r, e) ==
    IF e < 0 THEN Finish(r, e)
    ELSE IF r.k + 1 < Len(init_sequence) THEN [r EXCEPT !.k = @ + 2]
    ELSE [r EXCEPT !.phase = "sysfs", !.k = 0]

\* a loop that logs the failure of a step and goes on with the next one
after_init_write_go_on(r, e) ==
    IF r.k < Len(init_sequence) THEN [r EXCEPT !.k = @ + 1]
    ELSE [r EXCEPT !.phase = "sysfs", !.k = 0]

\* the caller after the write of init_sequence[k] returned e
after_init_write(r, e) ==
    IF e < 0
    THEN Finish([r EXCEPT !.dev_err = probe_dev_err(init_sequence[r.k][1],
                                                    init_sequence[r.k][2], e)], e)
    ELSE IF r.k < Len(init_sequence) THEN [r EXCEPT !.k = @ + 1]
    ELSE [r EXCEPT !.phase = "sysfs", !.k = 0]

\* one turn of the initialization loop of probe
probe_init_write(t, e) ==
    /\ th[t].phase = "init"
    /\ e \in Outcomes
    /\ LET step == init_sequence[th[t].k]
           tx == W(step[1], step[2])
       IN  /\ Xfer(tx, e)
           /\ th' = [th EXCEPT ![t] = after_init_write(Logged(th[t], tx, e), e)]
    \* a failed probe releases the devm allocation
    /\ data' = IF th'[t].phase = "done" THEN NoData ELSE data
    /\ UNCHANGED <<sysfs, bound, nops>>

\* sysfs_create_group in probe
probe_create_sysfs(t, ok) ==
    /\ th[t].phase = "sysfs"
    /\ IF ok
       THEN /\ sysfs' = TRUE
            /\ data' = data
            /\ th' = [th EXCEPT ![t].phase = "call_set_volume"]
       ELSE /\ sysfs' = sysfs
            /\ data' = NoData
            /\ th' = [th EXCEPT ![t] = Finish(th[t], ENOMEM)]
    /\ UNCHANGED <<regs, page, bound, nops, faults>>

\* probe calls set_volume(data, data->volume)
probe_call_set_volume(t) ==
    /\ th[t].phase = "call_set_volume"
    /\ data' = [data EXCEPT !.volume = set_volume_cached(data.volume)]
    /\ th' = [th EXCEPT ![t] = set_volume_entry(th[t], data.volume)]
    /\ UNCHANGED <<regs, page, sysfs, bound, nops, faults>>

\* probe calls set_input_gain(data, data->input_gain)
probe_call_set_input_gain(t) ==
    /\ th[t].phase = "call_set_input_gain"
    /\ data' = [data EXCEPT !.input_gain = set_input_gain_cached(data.input_gain)]
    /\ th' = [th EXCEPT ![t] = set_input_gain_entry(th[t], data.input_gain)]
    /\ UNCHANGED <<regs, page, sysfs, bound, nops, faults>>

\* the error path of probe after the group was created: sysfs_remove_group
\* waits for the handlers in flight, then probe returns the error
probe_unwind(t) ==
    /\ th[t].phase = "unwind"
    /\ \A u \in DOMAIN th \ {t} : Free(u)
    /\ sysfs' = FALSE
    /\ data' = NoData
    /\ th' = [th EXCEPT ![t].phase = "done"]
    /\ UNCHANGED <<regs, page, bound, nops, faults>>

\* remove, called by the driver core once no handler is in flight
pamir_ai_i2c_sound_remove(t) ==
    /\ CanStart(t)
    /\ bound
    /\ \A u \in DOMAIN th : Free(u)
    /\ nops' = nops + 1
    /\ sysfs' = FALSE
    /\ bound' = FALSE
    /\ data' = NoData
    /\ th' = [th EXCEPT ![t] = Finish(Begin(t, "remove", <<>>), 0)]
    /\ UNCHANGED <<regs, page, faults>>

----------------------------------------------------------------------------
(* volume_level and input_gain attributes                                  *)

volume_level_store(t, conv) ==
    /\ CanStart(t) /\ sysfs
    /\ nops' = nops + 1
    /\ LET r == Begin(t, "volume_level_store", Converted(conv))
           volume == volume_level_store_clamp(conv.v)
       IN  IF conv.ret < 0
           THEN /\ th' = [th EXCEPT ![t] = Finish(r, conv.ret)]
                /\ data' = data
           ELSE /\ th' = [th EXCEPT ![t] = set_volume_entry(r, volume)]
                /\ data' = [data EXCEPT !.volume = set_volume_cached(volume)]
    /\ UNCHANGED <<regs, page, sysfs, bound, faults>>

input_gain_store(t, conv) ==
    /\ CanStart(t) /\ sysfs
    /\ nops' = nops + 1
    /\ LET r == Begin(t, "input_gain_store", Converted(conv))
           gain == input_gain_store_clamp(conv.v)
       IN  IF conv.ret < 0
           THEN /\ th' = [th EXCEPT ![t] = Finish(r, conv.ret)]
                /\ data' = data
           ELSE /\ th' = [th EXCEPT ![t] = set_input_gain_entry(r, gain)]
                /\ data' = [data EXCEPT !.input_gain = set_input_gain_cached(gain)]
    /\ UNCHANGED <<regs, page, sysfs, bound, faults>>

volume_level_show(t) ==
    /\ CanStart(t) /\ sysfs
    /\ nops' = nops + 1
    /\ th' = [th EXCEPT ![t] =
                [Begin(t, "volume_level_show", <<>>) EXCEPT
                    !.phase = "get_volume", !.k = 1]]
    /\ UNCHANGED <<regs, page, data, sysfs, bound, faults>>

input_gain_show(t) ==
    /\ CanStart(t) /\ sysfs
    /\ nops' = nops + 1
    /\ th' = [th EXCEPT ![t] =
                [Begin(t, "input_gain_show", <<>>) EXCEPT
                    !.phase = "get_input_gain", !.k = 1]]
    /\ UNCHANGED <<regs, page, data, sysfs, bound, faults>>

\* a get_volume that reads the DAC byte without going back to page 0
get_volume_xfers_dac_on_page1 == << W(0, 1), R(16), W(0, 1), R(65) >>

\* the four transactions of get_volume, in program order
get_volume_xfers == << W(0, 1), R(16), W(0, 0), R(65) >>

\* one transaction of pamir_ai_i2c_sound_get_volume; after the last one the
\* estimate is stored in the cache and volume_level_show prints the cache
get_volume_xfer(t, e) ==
    /\ th[t].phase = "get_volume"
    /\ e \in Outcomes
    /\ LET tx == get_volume_xfers[th[t].k]
           r == Logged(th[t], tx, e)
           v == Returned(tx, e)
           volume == get_volume_decode(r.is_muted, r.hp_val, v)
       IN  /\ Xfer(tx, e)
           /\ IF e < 0 THEN
                 /\ th' = [th EXCEPT ![t] = Finish(r, e)]
                 /\ data' = data
              ELSE IF r.k = 2 THEN
                 /\ th' = [th EXCEPT ![t] =
                             [r EXCEPT !.k = 3, !.is_muted = mute_bit(v),
                                       !.hp_val = gain_bits(v)]]
                 /\ data' = data
              ELSE IF r.k = 4 THEN
                 /\ th' = [th EXCEPT ![t] =
                             Finish([r EXCEPT !.dac_val = v, !.out = volume],
                                    sprintf_len(volume))]
                 /\ data' = [data EXCEPT !.volume = volume]
              ELSE
                 /\ th' = [th EXCEPT ![t] = [r EXCEPT !.k = @ + 1]]
                 /\ data' = data
    /\ UNCHANGED <<sysfs, bound, nops>>


\* a get_input_gain that reads on whatever page was left selected
get_input_gain_xfers_page_kept == << R(83), R(83) >>

\* the two transactions of get_input_gain, in program order
get_input_gain_xfers == << W(0, 0), R(83) >>

\* one transaction of pamir_ai_i2c_sound_get_input_gain; after the last one
\* the estimate is stored in the cache and input_gain_show prints the cache
get_input_gain_xfer(t, e) ==
    /\ th[t].phase = "get_input_gain"
    /\ e \in Outcomes
    /\ LET tx == get_input_gain_xfers[th[t].k]
           r == Logged(th[t], tx, e)
           v == Returned(tx, e)
           gain == get_input_gain_decode(v)
       IN  /\ Xfer(tx, e)
           /\ IF e < 0 THEN
                 /\ th' = [th EXCEPT ![t] = Finish(r, e)]
                 /\ data' = data
              ELSE IF r.k = 2 THEN
                 /\ th' = [th EXCEPT ![t] =
                             Finish([r EXCEPT !.adc_val = v % 128, !.out = gain],
                                    sprintf_len(gain))]
                 /\ data' = [data EXCEPT !.input_gain = gain]
              ELSE
                 /\ th' = [th EXCEPT ![t] = [r EXCEPT !.k = @ + 1]]
                 /\ data' = data
    /\ UNCHANGED <<sysfs, bound, nops>>

----------------------------------------------------------------------------
(* register_access attribute                                               *)

\* arg holds the ints sscanf converted from buf, at most three for a store
\* ("%d %d %d") and at most two for a show ("%d %d"). A store parses the
\* text written to the attribute; a show parses the buffer it is handed to
\* fill, and the driver keeps no page or register from an earlier store.
register_access_store(t, arg) ==
    /\ CanStart(t) /\ sysfs
    /\ nops' = nops + 1
    /\ LET r == Begin(t, "register_access_store", arg)
       IN  th' = [th EXCEPT ![t] =
                IF Len(arg) # 3 THEN Finish(r, EINVAL)
                ELSE IF ~register_access_store_valid(arg[1], arg[2], arg[3])
                     THEN Finish(r, EINVAL)
                ELSE [r EXCEPT !.phase = "raw_write", !.k = 1]]
    /\ UNCHANGED <<regs, page, data, sysfs, bound, faults>>

register_access_show(t, arg) ==
    /\ CanStart(t) /\ sysfs
    /\ nops' = nops + 1
    /\ LET r == Begin(t, "register_access_show", arg)
       IN  th' = [th EXCEPT ![t] =
                IF Len(arg) # 2 THEN Finish(r, EINVAL)
                ELSE IF ~register_access_show_valid(arg[1], arg[2])
                     THEN Finish(r, EINVAL)
                ELSE [r EXCEPT !.phase = "raw_read", !.k = 1]]
    /\ UNCHANGED <<regs, page, data, sysfs, bound, faults>>


\* a register_access_store that writes on whatever page is selected
register_access_store_xfer_page_kept(t, e) ==
    /\ th[t].phase = "raw_write"
    /\ e \in Outcomes
    /\ LET a == th[t].arg
           tx == IF th[t].k = 1 THEN W(0, page) ELSE W(a[2], a[3])
           r == Logged(th[t], tx, e)
       IN  /\ Xfer(tx, e)
           /\ th' = [th EXCEPT ![t] =
                        IF e < 0 THEN Finish(r, e)
                        ELSE IF r.k = 1 THEN [r EXCEPT !.k = 2]
                        ELSE Finish(r, Count(a))]
    /\ UNCHANGED <<data, sysfs, bound, nops>>

\* page select, then the register write
register_access_store_xfer(t, e) ==
    /\ th[t].phase = "raw_write"
    /\ e \in Outcomes
    /\ LET a == th[t].arg
           tx == IF th[t].k = 1 THEN W(0, a[1]) ELSE W(a[2], a[3])
           r == Logged(th[t], tx, e)
       IN  /\ Xfer(tx, e)
           /\ th' = [th EXCEPT ![t] =
                        IF e < 0 THEN Finish(r, e)
                        ELSE IF r.k = 1 THEN [r EXCEPT !.k = 2]
                        ELSE Finish(r, Count(a))]
    /\ UNCHANGED <<data, sysfs, bound, nops>>

\* page select, then the register read
register_access_show_xfer(t, e) ==
    /\ th[t].phase = "raw_read"
    /\ e \in Outcomes
    /\ LET a == th[t].arg
           tx == IF th[t].k = 1 THEN W(0, a[1]) ELSE R(a[2])
           r == Logged(th[t], tx, e)
           v == Returned(tx, e)
       IN  /\ Xfer(tx, e)
           /\ th' = [th EXCEPT ![t] =
                        IF e < 0 THEN Finish(r, e)
                        ELSE IF r.k = 1 THEN [r EXCEPT !.k = 2]
                        ELSE Finish([r EXCEPT !.out = v], sprintf_len(v))]
    /\ UNCHANGED <<data, sysfs, bound, nops>>

----------------------------------------------------------------------------
(* Inputs *)

\* decimal texts written to volume_level and input_gain
VolumeInputs == {-1, 0, 40, 300}
GainInputs == {0, 19, 300}

\* what sscanf converts from the texts given to register_access
RawStoreInputs ==
    { <<0, 65, 160>>, <<1, 16, 29>>, <<0, 83, 48>>,
      <<256, 16, 29>>, <<1, -1, 29>>, <<1, 16, 256>>, <<0, 83>>, <<>> }
RawShowInputs ==
    { <<1, 16>>, <<0, 65>>, <<256, 16>>, <<1, -1>>, <<>> }

Callers == {1}

----------------------------------------------------------------------------
(* The driver, its device and its callers *)

Init ==
    /\ regs = ZeroRegs
    /\ page \in Pages
    /\ data = NoData
    /\ sysfs = FALSE
    /\ bound = FALSE
    /\ th = [t \in Callers |-> IdleThread]
    /\ nops = 0
    /\ faults = 0

Next ==
    \E t \in Callers :
        \/ \E ok \in BOOLEAN : probe(t, ok)
        \/ \E e \in {0} \cup BusErrors : probe_init_write(t, e)
        \/ \E ok \in BOOLEAN : probe_create_sysfs(t, ok)
        \/ probe_call_set_volume(t)
        \/ probe_call_set_input_gain(t)
        \/ probe_unwind(t)
        \/ pamir_ai_i2c_sound_remove(t)
        \/ \E e \in {0} \cup BusErrors : set_volume_write(t, e)
        \/ \E e \in {0} \cup BusErrors : set_input_gain_write(t, e)
        \/ \E e \in {0} \cup BusErrors : get_volume_xfer(t, e)
        \/ \E e \in {0} \cup BusErrors : get_input_gain_xfer(t, e)
        \/ \E c \in kstrtoint(VolumeInputs) : volume_level_store(t, c)
        \/ \E c \in kstrtoint(GainInputs) : input_gain_store(t, c)
        \/ volume_level_show(t)
        \/ input_gain_show(t)
        \/ \E a \in RawStoreInputs : register_access_store(t, a)
        \/ \E a \in RawShowInputs : register_access_show(t, a)
        \/ \E e \in {0} \cup BusErrors : register_access_store_xfer(t, e)
        \/ \E e \in {0} \cup BusErrors : register_access_show_xfer(t, e)

Spec == Init /\ [][Next]_vars

----------------------------------------------------------------------------
(* Curve runs: a freshly attached device, one percent written to           *)
(* volume_level or input_gain, then read back, with a bus that works       *)

CurveInputs == (0 - CurveMargin)..(100 + CurveMargin)

InitWrites == [i \in 1..Len(init_sequence) |->
                  W(init_sequence[i][1], init_sequence[i][2])]

\* everything a successful probe writes, in program order
ProbeWrites ==
    InitWrites
        \o set_volume_writes(set_volume_hp_val(set_volume_cached(probe_defaults.volume)),
                             set_volume_dac_val(set_volume_cached(probe_defaults.volume)))
        \o set_input_gain_writes(
               set_input_gain_adc_val(set_input_gain_cached(probe_defaults.input_gain)))

\* the log of transactions txs when each of them succeeded (writes only)
OkLog(txs) == [i \in 1..Len(txs) |->
                  [rw |-> txs[i].rw, reg |-> txs[i].reg, val |-> txs[i].val, ret |-> 0]]

\* the caller that ran a successful probe on a codec at power-on
Attached ==
    [IdleThread EXCEPT
        !.op = "probe", !.phase = "done", !.k = 3,
        !.hp_val = set_volume_hp_val(set_volume_cached(probe_defaults.volume)),
        !.dac_val = set_volume_dac_val(set_volume_cached(probe_defaults.volume)),
        !.adc_val = set_input_gain_adc_val(set_input_gain_cached(probe_defaults.input_gain)),
        !.log = OkLog(ProbeWrites)]

InitCurve ==
    /\ regs = ApplyWrites(ZeroRegs, 0, ProbeWrites, Len(ProbeWrites))[1]
    /\ page = ApplyWrites(ZeroRegs, 0, ProbeWrites, Len(ProbeWrites))[2]
    /\ data = [probe_defaults EXCEPT
                  !.volume = set_volume_cached(probe_defaults.volume),
                  !.input_gain = set_input_gain_cached(probe_defaults.input_gain)]
    /\ sysfs = TRUE
    /\ bound = TRUE
    /\ th = [t \in Callers |-> Attached]
    /\ nops = 1
    /\ faults = 0

NextCurve ==
    \E t \in Callers :
        \/ \E c \in kstrtoint(CurveInputs) :
              th[t].op = "probe" /\ volume_level_store(t, c)
        \/ \E c \in kstrtoint(CurveInputs) :
              th[t].op = "probe" /\ input_gain_store(t, c)
        \/ set_volume_write(t, 0)
        \/ set_input_gain_write(t, 0)
        \/ volume_level_show(t)
        \/ input_gain_show(t)
        \/ get_volume_xfer(t, 0)
        \/ get_input_gain_xfer(t, 0)

SpecCurve == InitCurve /\ [][NextCurve]_vars

\* Cycle runs: on a freshly attached device a percent is written to
\* volume_level or not, then volume_level is read and the number read is
\* written back to it, again and again, with a bus that works
InitCycle ==
    /\ regs = ApplyWrites(ZeroRegs, 0, ProbeWrites, Len(ProbeWrites))[1]
    /\ page = ApplyWrites(ZeroRegs, 0, ProbeWrites, Len(ProbeWrites))[2]
    /\ data = [probe_defaults EXCEPT
                  !.volume = set_volume_cached(probe_defaults.volume),
                  !.input_gain = set_input_gain_cached(probe_defaults.input_gain)]
    /\ sysfs = TRUE
    /\ bound = TRUE
    /\ th = [t \in Callers |-> Attached]
    /\ nops = 0
    /\ faults = 0

NextCycle ==
    \E t \in Callers :
        \/ \E c \in kstrtoint(CurveInputs) :
              th[t].op = "probe" /\ volume_level_store(t, c)
        \/ volume_level_show(t)
        \/ /\ th[t].op = "volume_level_show" /\ th[t].ret > 0
           /\ volume_level_store(t, [ret |-> 0, v |-> th[t].out])
        \/ set_volume_write(t, 0)
        \/ get_volume_xfer(t, 0)

SpecCycle == InitCycle /\ [][NextCycle]_vars

\* the state the curve runs start in is one the driver reaches by probing
\* a codec at power-on (TLC finds this violated under Spec)
CurveStartNotReached ==
    ~(/\ regs = ApplyWrites(ZeroRegs, 0, ProbeWrites, Len(ProbeWrites))[1]
      /\ page = 0
      /\ data = [alloc |-> TRUE, volume |-> 50, input_gain |-> 50]
      /\ sysfs /\ bound /\ nops = 1 /\ faults = 0
      /\ th = [t \in Callers |-> Attached])

----------------------------------------------------------------------------
(* Decode runs: an attached device whose driver register and DAC register  *)
(* were set to any two bytes by raw writes; volume_level is then read,     *)
(* with a bus that works                                                   *)

Bytes == 0..255

\* the registers of the codec after a successful probe at power-on
AttachedRegs == RegsAfter(ZeroRegs, 0, ProbeWrites, Len(ProbeWrites))

\* the caller that wrote hp to page 1 register 0x10 and then dac to page 0
\* register 0x41 through register_access, after it had probed the device
AfterRawWrites(attached, hp, dac) ==
    [IdleThread EXCEPT
        !.op = "register_access_store", !.phase = "done", !.k = 2,
        !.arg = <<0, 65, dac>>, !.ret = Count(<<0, 65, dac>>),
        !.log = OkLog(<< W(0, 0), W(65, dac) >>),
        !.vol0 = set_volume_cached(probe_defaults.volume),
        !.gain0 = set_input_gain_cached(probe_defaults.input_gain),
        !.regs0 = [attached EXCEPT ![<<1, 16>>] = hp],
        !.page0 = 1,
        !.prev = [op |-> "register_access_store", arg |-> <<1, 16, hp>>,
                  ret |-> Count(<<1, 16, hp>>), out |-> -1]]

\* the read that follows is the last handler of its run
InitDecode ==
    \E attached \in {AttachedRegs} :
        /\ attached \in [Pages \X RegAddrs -> Bytes]
        /\ \E hp \in Bytes, dac \in Bytes :
              /\ regs = [attached EXCEPT ![<<1, 16>>] = hp, ![<<0, 65>>] = dac]
              /\ th = [t \in Callers |-> AfterRawWrites(attached, hp, dac)]
        /\ page = 0
        /\ data = [probe_defaults EXCEPT
                      !.volume = set_volume_cached(probe_defaults.volume),
                      !.input_gain = set_input_gain_cached(probe_defaults.input_gain)]
        /\ sysfs = TRUE
        /\ bound = TRUE
        /\ nops = MaxOps - 1
        /\ faults = 0

NextDecode ==
    \E t \in Callers :
        \/ volume_level_show(t)
        \/ get_volume_xfer(t, 0)

SpecDecode == InitDecode /\ [][NextDecode]_vars

\* the state a decode run starts in is one the driver reaches from probe by
\* two raw writes (TLC finds this violated under Spec)
DecodeStartNotReached ==
    ~(/\ page = 0
      /\ data = [alloc |-> TRUE, volume |-> 50, input_gain |-> 50]
      /\ sysfs /\ bound /\ faults = 0
      /\ \A t \in Callers : th[t].op = "register_access_store" /\ th[t].phase = "done"
      /\ regs = [AttachedRegs EXCEPT ![<<1, 16>>] = 29, ![<<0, 65>>] = 160]
      /\ th = [t \in Callers |-> AfterRawWrites(AttachedRegs, 29, 160)])

----------------------------------------------------------------------------
(* The earlier revision of the driver: the same handlers with another      *)
(* initialization table and an input gain curve whose two ranges meet at   *)
(* register value 0x00                                                     *)

legacy_init_sequence == <<
    <<1,1>>, <<0,0>>, <<11,129>>, <<12,132>>, <<18,129>>, <<19,132>>, <<25,7>>,
    <<26,129>>, <<52,16>>, <<0,1>>, <<2,9>>, <<1,8>>, <<2,1>>, <<71,50>>,
    <<123,1>>, <<0,0>>, <<55,14>>, <<56,2>>, <<83,35>>, <<84,35>>, <<65,48>>,
    <<66,48>>, <<0,1>>, <<20,37>>, <<12,8>>, <<13,8>>, <<14,8>>, <<15,8>>,
    <<9,60>>, <<16,7>>, <<17,7>>, <<18,7>>, <<19,7>>, <<0,0>>, <<65,0>>,
    <<66,0>>, <<63,214>>, <<64,0>>, <<81,220>>, <<82,0>> >>

\* ADC volume byte of the earlier revision
legacy_set_input_gain_adc_val(gain) ==
    IF gain <= 20 THEN u8(104 - CDiv(gain * (104 - 0), 20))
    ELSE u8(CDiv((gain - 20) * 40, 80))

\* a decode that tests the boost range before the attenuation range
legacy_get_input_gain_decode_boost_first(raw) ==
    LET adc_val == raw % 128
    IN  IF adc_val >= 104 THEN 0
        ELSE IF adc_val <= 40 THEN u8(20 + CDiv(adc_val * 80, 40))
        ELSE u8(CDiv((104 - adc_val) * 20, 104))

\* percent estimate of the earlier revision
legacy_get_input_gain_decode(raw) ==
    LET adc_val == raw % 128
    IN  IF adc_val >= 104 THEN 0
        ELSE IF adc_val > 0 THEN u8(CDiv((104 - adc_val) * 20, 104))
        ELSE IF adc_val <= 40 THEN u8(20 + CDiv(adc_val * 80, 40))
        ELSE 100

\* input_gain_store of the earlier revision
legacy_input_gain_store(t, conv) ==
    /\ CanStart(t) /\ sysfs
    /\ nops' = nops + 1
    /\ LET r == Begin(t, "input_gain_store", Converted(conv))
           gain == input_gain_store_clamp(conv.v)
       IN  IF conv.ret < 0
           THEN /\ th' = [th EXCEPT ![t] = Finish(r, conv.ret)]
                /\ data' = data
           ELSE /\ th' = [th EXCEPT ![t] =
                            [r EXCEPT !.phase = "set_input_gain", !.k = 1,
                                      !.adc_val = legacy_set_input_gain_adc_val(
                                                      set_input_gain_cached(gain))]]
                /\ data' = [data EXCEPT !.input_gain = set_input_gain_cached(gain)]
    /\ UNCHANGED <<regs, page, sysfs, bound, faults>>

\* one transaction of get_input_gain of the earlier revision
legacy_get_input_gain_xfer(t, e) ==
    /\ th[t].phase = "get_input_gain"
    /\ e \in Outcomes
    /\ LET tx == get_input_gain_xfers[th[t].k]
           r == Logged(th[t], tx, e)
           v == Returned(tx, e)
           gain == legacy_get_input_gain_decode(v)
       IN  /\ Xfer(tx, e)
           /\ IF e < 0 THEN
                 /\ th' = [th EXCEPT ![t] = Finish(r, e)]
                 /\ data' = data
              ELSE IF r.k = 2 THEN
                 /\ th' = [th EXCEPT ![t] =
                             Finish([r EXCEPT !.adc_val = v % 128, !.out = gain],
                                    sprintf_len(gain))]
                 /\ data' = [data EXCEPT !.input_gain = gain]
              ELSE
                 /\ th' = [th EXCEPT ![t] = [r EXCEPT !.k = @ + 1]]
                 /\ data' = data
    /\ UNCHANGED <<sysfs, bound, nops>>

\* everything a successful probe of the earlier revision writes
LegacyProbeWrites ==
    [i \in 1..Len(legacy_init_sequence) |->
        W(legacy_init_sequence[i][1], legacy_init_sequence[i][2])]
        \o set_volume_writes(set_volume_hp_val(set_volume_cached(probe_defaults.volume)),
                             set_volume_dac_val(set_volume_cached(probe_defaults.volume)))
        \o set_input_gain_writes(
               legacy_set_input_gain_adc_val(set_input_gain_cached(probe_defaults.input_gain)))

\* the caller that ran a successful probe of the earlier revision
LegacyAttached ==
    [Attached EXCEPT
        !.adc_val = legacy_set_input_gain_adc_val(
                        set_input_gain_cached(probe_defaults.input_gain)),
        !.log = OkLog(LegacyProbeWrites)]

\* a device attached by the earlier revision; the registers of its table
\* that the register file does not hold are not followed
InitLegacy ==
    /\ regs = RegsAfter(ZeroRegs, 0, LegacyProbeWrites, Len(LegacyProbeWrites))
    /\ page = PageAfter(0, LegacyProbeWrites, Len(LegacyProbeWrites))
    /\ data = [probe_defaults EXCEPT
                  !.volume = set_volume_cached(probe_defaults.volume),
                  !.input_gain = set_input_gain_cached(probe_defaults.input_gain)]
    /\ sysfs = TRUE
    /\ bound = TRUE
    /\ th = [t \in Callers |-> LegacyAttached]
    /\ nops = 1
    /\ faults = 0

\* one percent written to input_gain, then read back, with a bus that works
NextLegacy ==
    \E t \in Callers :
        \/ \E c \in kstrtoint(CurveInputs) :
              th[t].op = "probe" /\ legacy_input_gain_store(t, c)
        \/ set_input_gain_write(t, 0)
        \/ input_gain_show(t)
        \/ legacy_get_input_gain_xfer(t, 0)

SpecLegacy == InitLegacy /\ [][NextLegacy]_vars

\* the caller of the earlier revision after the write of
\* legacy_init_sequence[k] returned e
legacy_after_init_write(r, e) ==
    IF e < 0
    THEN Finish([r EXCEPT !.dev_err = probe_dev_err(legacy_init_sequence[r.k][1],
                                                    legacy_init_sequence[r.k][2], e)], e)
    ELSE IF r.k < Len(legacy_init_sequence) THEN [r EXCEPT !.k = @ + 1]
    ELSE [r EXCEPT !.phase = "sysfs", !.k = 0]

\* one turn of the initialization loop of the earlier revision
legacy_probe_init_write(t, e) ==
    /\ th[t].phase = "init"
    /\ e \in Outcomes
    /\ LET step == legacy_init_sequence[th[t].k]
           tx == W(step[1], step[2])
       IN  /\ Xfer(tx, e)
           /\ th' = [th EXCEPT ![t] = legacy_after_init_write(Logged(th[t], tx, e), e)]
    /\ data' = IF th'[t].phase = "done" THEN NoData ELSE data
    /\ UNCHANGED <<sysfs, bound, nops>>

\* probe of the earlier revision calls set_input_gain(data, data->input_gain)
legacy_probe_call_set_input_gain(t) ==
    /\ th[t].phase = "call_set_input_gain"
    /\ data' = [data EXCEPT !.input_gain = set_input_gain_cached(data.input_gain)]
    /\ th' = [th EXCEPT ![t] =
                [th[t] EXCEPT !.phase = "set_input_gain", !.k = 1,
                              !.adc_val = legacy_set_input_gain_adc_val(
                                              set_input_gain_cached(data.input_gain))]]
    /\ UNCHANGED <<regs, page, sysfs, bound, nops, faults>>

\* the earlier revision probes a codec that has either page selected; the
\* bus may fail during the initialization loop, and the driver core may
\* probe again after a failure
NextLegacyProbe ==
    \E t \in Callers :
        \/ probe(t, TRUE)
        \/ \E e \in {0} \cup BusErrors : legacy_probe_init_write(t, e)
        \/ probe_create_sysfs(t, TRUE)
        \/ probe_call_set_volume(t)
        \/ set_volume_write(t, 0)
        \/ legacy_probe_call_set_input_gain(t)
        \/ set_input_gain_write(t, 0)

SpecLegacyProbe == Init /\ [][NextLegacyProbe]_vars

\* Raw runs: on a freshly attached device one byte is written through
\* register_access to a register the register file holds, or to the page
\* selector, and the same page and register are then read through
\* register_access, with a bus that works
InitRaw ==
    \E attached \in {AttachedRegs} :
        /\ attached \in [Pages \X RegAddrs -> Bytes]
        /\ regs = attached
        /\ page = 0
        /\ data = [probe_defaults EXCEPT
                      !.volume = set_volume_cached(probe_defaults.volume),
                      !.input_gain = set_input_gain_cached(probe_defaults.input_gain)]
        /\ sysfs = TRUE
        /\ bound = TRUE
        /\ th = [t \in Callers |-> Attached]
        /\ nops = 1
        /\ faults = 0

NextRaw ==
    \E t \in Callers :
        \/ /\ th[t].op = "probe"
           /\ \E pg \in Pages, reg \in RegAddrs \cup {0}, value \in Bytes :
                 register_access_store(t, <<pg, reg, value>>)
        \/ register_access_store_xfer(t, 0)
        \/ /\ th[t].op = "register_access_store"
           /\ register_access_show(t, <<th[t].arg[1], th[t].arg[2]>>)
        \/ register_access_show_xfer(t, 0)

SpecRaw == InitRaw /\ [][NextRaw]_vars

----------------------------------------------------------------------------
(* Concurrent runs: the driver core probes the device while a second       *)
(* caller uses the attributes as soon as they exist; afterwards both       *)
(* callers use them: they write volume_level, input_gain and               *)
(* register_access and read volume_level. The driver takes no lock, so the *)
(* transactions of two handlers interleave freely on the bus. The bus      *)
(* works.                                                                  *)

ConcCallers == {1, 2}

\* the int written to volume_level and to input_gain in these runs
ConcPercent == [ret |-> 0, v |-> 40]

\* the fields written to register_access in these runs
ConcRawStore == <<0, 65, 160>>

InitConc ==
    /\ regs = ZeroRegs
    /\ page \in Pages
    /\ data = NoData
    /\ sysfs = FALSE
    /\ bound = FALSE
    /\ th = [t \in ConcCallers |-> IdleThread]
    /\ nops = 0
    /\ faults = 0

NextConc ==
    \E t \in ConcCallers :
        \/ t = 1 /\ probe(t, TRUE)
        \/ probe_init_write(t, 0)
        \/ probe_create_sysfs(t, TRUE)
        \/ probe_call_set_volume(t)
        \/ probe_call_set_input_gain(t)
        \/ set_volume_write(t, 0)
        \/ set_input_gain_write(t, 0)
        \/ get_volume_xfer(t, 0)
        \/ nops < MaxConcOps /\ volume_level_store(t, ConcPercent)
        \/ nops < MaxConcOps /\ input_gain_store(t, ConcPercent)
        \/ nops < MaxConcOps /\ volume_level_show(t)
        \/ nops < MaxConcOps /\ register_access_store(t, ConcRawStore)
        \/ register_access_store_xfer(t, 0)

SpecConc == InitConc /\ [][NextConc]_vars

----------------------------------------------------------------------------
(* Properties *)

Done(t, op) == th[t].op = op /\ th[t].phase = "done"

\* the handler of caller t got a transport error from the bus
BusFailed(t) ==
    \E i \in 1..Len(th[t].log) : th[t].log[i].ret < 0

HpRegs == {<<1, 16>>, <<1, 17>>, <<1, 18>>, <<1, 19>>}
DacRegs == {<<0, 65>>, <<0, 66>>}
AdcRegs == {<<0, 83>>, <<0, 84>>}

Saturate(p) == Min(Max(p, 0), 100)

Tier(p) ==
    IF p = 0 THEN 0
    ELSE IF p <= 20 THEN 1
    ELSE IF p <= 60 THEN 2
    ELSE IF p <= 90 THEN 3
    ELSE 4

\* caller t has read volume_level right after it wrote the percent p to
\* it, both with success
VolumeReadBack(t, p) ==
    /\ Done(t, "volume_level_show") /\ th[t].ret > 0
    /\ th[t].prev.op = "volume_level_store" /\ th[t].prev.ret > 0
    /\ th[t].prev.arg = <<p>>

\* caller t has read input_gain right after it wrote the percent p to it,
\* both with success
GainReadBack(t, p) ==
    /\ Done(t, "input_gain_show") /\ th[t].ret > 0
    /\ th[t].prev.op = "input_gain_store" /\ th[t].prev.ret > 0
    /\ th[t].prev.arg = <<p>>

\* C1: when a write of set_volume (resp. set_input_gain) returns a transport
\* error, the handler returns that error and the cached volume (resp. input
\* gain) still holds the value it had before the call.
C1_CacheKeptOnError ==
    \A t \in Callers :
        /\ (Done(t, "volume_level_store") /\ BusFailed(t))
              => (th[t].ret < 0 /\ data.volume = th[t].vol0)
        /\ (Done(t, "input_gain_store") /\ BusFailed(t))
              => (th[t].ret < 0 /\ data.input_gain = th[t].gain0)

\* C2: a raw register access with a page, register or value outside 0..255
\* returns -EINVAL, issues no bus transaction and leaves the selected page
\* and the registers of the codec as they were.
C2_InvalidAccessTouchesNoBus ==
    \A t \in Callers :
        LET a == th[t].arg
            out_of_range == \E i \in 1..Len(a) : a[i] < 0 \/ a[i] > 255
        IN  ((Done(t, "register_access_store") /\ Len(a) = 3 /\ out_of_range)
                \/ (Done(t, "register_access_show") /\ Len(a) = 2 /\ out_of_range))
            => /\ th[t].ret = EINVAL
               /\ th[t].log = <<>>
               /\ regs = th[t].regs0
               /\ page = th[t].page0

\* a raw write of the value 256 was rejected
C2_Witness ==
    \E t \in Callers :
        /\ Done(t, "register_access_store")
        /\ th[t].arg = <<1, 16, 256>>
        /\ th[t].ret = EINVAL

\* C3: when the write of init step i fails during probe, the bus has seen
\* exactly the steps before i, in table order, and then the failed step;
\* nothing follows it and nothing is undone, and probe returns the error of
\* the bus with the device left unbound.
C3_InitAbortsAtFirstFailure ==
    \A t \in Callers :
        \A n \in 1..Len(th[t].log) :
            (th[t].op = "probe" /\ n <= Len(init_sequence) /\ th[t].log[n].ret < 0)
            => /\ th[t].phase = "done"
               /\ Len(th[t].log) = n
               /\ \A j \in 1..n :
                     /\ th[t].log[j].rw = "w"
                     /\ th[t].log[j].reg = init_sequence[j][1]
                     /\ th[t].log[j].val = init_sequence[j][2]
                     /\ j < n => th[t].log[j].ret = 0
               /\ th[t].ret = th[t].log[n].ret
               /\ regs = RegsAfter(th[t].regs0, th[t].page0, InitWrites, n - 1)
               /\ page = PageAfter(th[t].page0, InitWrites, n - 1)
               /\ ~bound /\ ~sysfs /\ ~data.alloc

\* probe failed at the step of index 10, the page select that precedes the
\* power management writes
C3_Witness ==
    \E t \in Callers :
        /\ Done(t, "probe")
        /\ Len(th[t].log) = 11
        /\ th[t].log[11].ret = EIO
        /\ th[t].ret = EIO

\* C4: for p in {0, 1, 21, 40, 50, 61, 91, 100}, volume_level read right
\* after p was written to it is in the tier of p.
C4_ReadBackInTierOfListedPercents ==
    \A t \in Callers :
        \A p \in {0, 1, 21, 40, 50, 61, 91, 100} :
            VolumeReadBack(t, p) => Tier(th[t].out) = Tier(p)

\* 91 was written and a value of the top tier was read back
C4_Witness ==
    \E t \in Callers : VolumeReadBack(t, 91) /\ th[t].out >= 91

\* C5: writing 0 to volume_level writes 0x40 (mute bit set, gain bits 0) to
\* the four driver registers and 0x00 to the two DAC registers, and reading
\* volume_level back then gives exactly 0.
C5_ZeroMutes ==
    \A t \in Callers :
        /\ (Done(t, "volume_level_store") /\ th[t].arg = <<0>> /\ th[t].ret > 0)
              => /\ th[t].hp_val = 64 /\ th[t].dac_val = 0
                 /\ \A a \in HpRegs : regs[a] = 64
                 /\ \A a \in DacRegs : regs[a] = 0
        /\ VolumeReadBack(t, 0)
              => /\ th[t].out = 0 /\ data.volume = 0
                 /\ th[t].is_muted /\ th[t].hp_val = 0 /\ th[t].dac_val = 0

\* 0 was written and read back from the muted registers
C5_Witness ==
    \E t \in Callers : VolumeReadBack(t, 0) /\ regs[<<1, 16>>] = 64

\* C6: for p in {0, 19, 20, 100}, input_gain read right after p was written
\* to it is p.
C6_GainExactAtRangeEnds ==
    \A t \in Callers :
        \A p \in {0, 19, 20, 100} :
            GainReadBack(t, p) => (th[t].out = p /\ data.input_gain = p)

\* 19 was written, which lands on register value 0x29, and read back
C6_Witness ==
    \E t \in Callers : GainReadBack(t, 19) /\ regs[<<0, 83>>] = 41

\* C7: a successful read of volume_level (resp. input_gain) has read page 1
\* register 0x10 and page 0 register 0x41 (resp. page 0 register 0x53) on the
\* bus, and the cache and the value printed are the decode of the bytes now
\* in those registers.
C7_GetReadsHardware ==
    \A t \in Callers :
        /\ (Done(t, "volume_level_show") /\ th[t].ret >= 0)
              => /\ th[t].log =
                        << [rw |-> "w", reg |-> 0, val |-> 1, ret |-> 0],
                           [rw |-> "r", reg |-> 16, val |-> 0, ret |-> regs[<<1, 16>>]],
                           [rw |-> "w", reg |-> 0, val |-> 0, ret |-> 0],
                           [rw |-> "r", reg |-> 65, val |-> 0, ret |-> regs[<<0, 65>>]] >>
                 /\ data.volume = get_volume_decode(mute_bit(regs[<<1, 16>>]),
                                                    gain_bits(regs[<<1, 16>>]),
                                                    regs[<<0, 65>>])
                 /\ th[t].out = data.volume
        /\ (Done(t, "input_gain_show") /\ th[t].ret >= 0)
              => /\ th[t].log =
                        << [rw |-> "w", reg |-> 0, val |-> 0, ret |-> 0],
                           [rw |-> "r", reg |-> 83, val |-> 0, ret |-> regs[<<0, 83>>]] >>
                 /\ data.input_gain = get_input_gain_decode(regs[<<0, 83>>])
                 /\ th[t].out = data.input_gain

\* volume_level was read after a raw write had put 0xA0 in the DAC register,
\* and the cache moved from what it held to the decode of the new byte
C7_Witness ==
    \E t \in Callers :
        /\ Done(t, "volume_level_show") /\ th[t].ret >= 0
        /\ th[t].prev.op = "register_access_store"
        /\ th[t].prev.arg = <<0, 65, 160>> /\ th[t].prev.ret > 0
        /\ th[t].vol0 = 50
        /\ data.volume # th[t].vol0

\* C8: in every handler, a transaction that returns a transport error is the
\* last one the handler issues, and the handler returns that error code.
C8_FailFast ==
    \A t \in Callers :
        \A i \in 1..Len(th[t].log) :
            th[t].log[i].ret < 0
            => /\ i = Len(th[t].log)
               /\ th[t].phase \in {"done", "unwind"}
               /\ th[t].ret = th[t].log[i].ret

\* the third write of set_volume failed with -EREMOTEIO and volume_level_store
\* returned -EREMOTEIO
C8_Witness ==
    \E t \in Callers :
        /\ Done(t, "volume_level_store")
        /\ Len(th[t].log) = 3
        /\ th[t].log[3].ret = EREMOTEIO
        /\ th[t].ret = EREMOTEIO

\* C9: every int p written to volume_level (resp. input_gain) is accepted,
\* and it leaves the registers and the cache as writing min(max(p, 0), 100)
\* does.
C9_PercentSaturates ==
    \A t \in Callers :
        /\ (Done(t, "volume_level_store") /\ Len(th[t].arg) = 1)
              => LET q == Saturate(th[t].arg[1])
                 IN  /\ th[t].ret > 0
                     /\ \A a \in HpRegs : regs[a] = set_volume_hp_val(q)
                     /\ \A a \in DacRegs : regs[a] = set_volume_dac_val(q)
                     /\ data.volume = q
        /\ (Done(t, "input_gain_store") /\ Len(th[t].arg) = 1)
              => LET q == Saturate(th[t].arg[1])
                 IN  /\ th[t].ret > 0
                     /\ \A a \in AdcRegs : regs[a] = set_input_gain_adc_val(q)
                     /\ data.input_gain = q

\* 256, which is 0 as a u8, was written to volume_level and set full volume
C9_Witness ==
    \E t \in Callers :
        /\ Done(t, "volume_level_store")
        /\ th[t].arg = <<256>>
        /\ data.volume = 100
        /\ regs[<<0, 65>>] = 16

\* C10: after a probe that returned 0 the cache is 50/50, the last eleven
\* transactions of probe are the writes of set_volume(50) and
\* set_input_gain(50), probe has read nothing from the codec, and the driver,
\* DAC and ADC registers hold the bytes of 50%, not those of the init table.
C10_AttachApplies50 ==
    \A t \in Callers :
        (Done(t, "probe") /\ th[t].ret = 0)
        => /\ bound /\ sysfs
           /\ data = [alloc |-> TRUE, volume |-> 50, input_gain |-> 50]
           /\ Len(th[t].log) = Len(init_sequence) + 11
           /\ SubSeq(th[t].log, Len(init_sequence) + 1, Len(th[t].log))
                 = OkLog(set_volume_writes(14, 0) \o set_input_gain_writes(15))
           /\ \A i \in 1..Len(th[t].log) : th[t].log[i].rw = "w"
           /\ \A a \in HpRegs : regs[a] = set_volume_hp_val(50) /\ regs[a] # 7
           /\ \A a \in DacRegs : regs[a] = set_volume_dac_val(50)
           /\ \A a \in AdcRegs : regs[a] = set_input_gain_adc_val(50) /\ regs[a] # 35

\* the device was attached a second time, after a remove
C10_Witness ==
    \E t \in Callers :
        /\ Done(t, "probe") /\ th[t].ret = 0
        /\ th[t].prev.op = "remove"
        /\ regs[<<1, 16>>] = 14 /\ regs[<<0, 83>>] = 15

\* the write of init step n failed in the probe of caller t
InitFailedAt(t, n) ==
    /\ th[t].op = "probe" /\ th[t].phase = "done"
    /\ n <= Len(init_sequence) /\ Len(th[t].log) = n
    /\ th[t].log[n].ret < 0

\* C11 as claimed: when the write of init step n fails, what probe reports
\* (its failure message and its return value) is a report no other step of
\* the table would give, so it identifies n.
C11_ReportIdentifiesStep ==
    \A t \in Callers :
        \A n \in 1..Len(init_sequence) :
            InitFailedAt(t, n)
            => \A j \in 1..Len(init_sequence) :
                  (init_sequence[j][1] = th[t].dev_err[1]
                      /\ init_sequence[j][2] = th[t].dev_err[2]) => j = n

\* C11 as the code has it: when the write of init step n fails, the failure
\* message carries the register and the value of step n and the error of
\* the bus, not the index n, and probe returns that error.
C11_ReportNamesRegisterAndValue ==
    \A t \in Callers :
        \A n \in 1..Len(init_sequence) :
            InitFailedAt(t, n)
            => /\ th[t].dev_err =
                     <<init_sequence[n][1], init_sequence[n][2], th[t].log[n].ret>>
               /\ th[t].ret = th[t].dev_err[3]

\* probe failed at the step of index 10 and reported register 0x00 with
\* value 0x01, the pair of the steps of index 16 and 27 as well
C11_Witness ==
    \E t \in Callers :
        /\ InitFailedAt(t, 11)
        /\ th[t].dev_err = <<0, 1, EIO>>
        /\ init_sequence[17] = <<0, 1>> /\ init_sequence[28] = <<0, 1>>

\* C12: writing the two fields "<page> <register>", each in 0..255, to
\* register_access is accepted, and the read of register_access that follows
\* prints the byte that register of that page holds.
C12_RawReadByTwoFieldWrite ==
    \A t \in Callers :
        LET two_fields(a) == Len(a) = 2 /\ \A i \in 1..2 : a[i] \in 0..255
        IN  /\ (Done(t, "register_access_store") /\ two_fields(th[t].arg)
                   /\ ~BusFailed(t))
                  => th[t].ret > 0
            /\ (Done(t, "register_access_show") /\ ~BusFailed(t)
                   /\ th[t].prev.op = "register_access_store"
                   /\ two_fields(th[t].prev.arg))
                  => /\ th[t].prev.ret > 0
                     /\ th[t].ret > 0
                     /\ th[t].out = DevRead(regs, th[t].prev.arg[1], th[t].prev.arg[2])

\* C13: the driver holds no lock: while one caller is inside a handler,
\* between any two of its bus transactions, another caller can enter a
\* handler of its own and put its page select on the bus.
C13_NoLockAroundAnOperation ==
    \A t, u \in ConcCallers :
        (t # u /\ ~Free(t) /\ sysfs /\ Free(u) /\ nops < MaxOps)
        => /\ ENABLED volume_level_show(u)
           /\ ENABLED volume_level_store(u, ConcPercent)
           /\ ENABLED input_gain_store(u, ConcPercent)
           /\ ENABLED register_access_store(u, ConcRawStore)

\* a read of volume_level selected page 0 between the page select of a
\* set_volume(50) and its first driver write: the set_volume returned
\* success, its headphone byte 0x0E went to register 0x10 of page 0, and
\* register 0x10 of page 1 still holds the 0x07 of the init table
C13_Witness ==
    \E t, u \in ConcCallers :
        /\ t # u
        /\ Done(t, "probe") /\ th[t].ret = 0 /\ th[t].hp_val = 14
        /\ th[u].op = "volume_level_show" /\ Len(th[u].log) >= 3
        /\ regs[<<0, 16>>] = 14
        /\ regs[<<1, 16>>] = 7

\* C15: within one attach the bus sees the init table in table order, each
\* entry once, then the writes of set_volume and set_input_gain; while the
\* table is being written the attributes do not exist and no other caller
\* has issued a bus transaction.
C15_InitFirstInOrderOnce ==
    \A t \in ConcCallers :
        /\ th[t].op = "probe"
              => /\ th[t].log =
                       SubSeq(OkLog(InitWrites
                                      \o set_volume_writes(th[t].hp_val, th[t].dac_val)
                                      \o set_input_gain_writes(th[t].adc_val)),
                              1, Len(th[t].log))
                 /\ th[t].phase = "init" => Len(th[t].log) = th[t].k - 1
                 /\ th[t].phase \notin {"idle", "init"}
                       => Len(th[t].log) >= Len(init_sequence)
                 /\ th[t].phase \in {"init", "sysfs"}
                       => /\ ~sysfs
                          /\ \A u \in ConcCallers \ {t} : th[u] = IdleThread
        /\ (th[t].op \notin {"none", "probe"})
              => \/ bound
                 \/ \E u \in ConcCallers \ {t} :
                        /\ th[u].op = "probe"
                        /\ Len(th[u].log) >= Len(init_sequence)
                        /\ th[u].phase \in {"call_set_volume", "set_volume",
                                            "call_set_input_gain", "set_input_gain"}

\* a second caller read volume_level while probe was still writing the
\* initial volume, after the whole table
C15_Witness ==
    \E t, u \in ConcCallers :
        /\ th[t].op = "probe" /\ th[t].phase = "set_volume"
        /\ Len(th[t].log) = Len(init_sequence) + 2
        /\ Done(u, "volume_level_show") /\ th[u].ret > 0

\* C14 as claimed: with the curve of the earlier revision, input_gain read
\* right after 20 was written to it is not 20.
C14_LegacyFailsAt20 ==
    \A t \in Callers : GainReadBack(t, 20) => th[t].out # 20

\* C14 as the code has it: with the curve of the earlier revision, 20 lands
\* on register value 0x00 and reads back as exactly 20; it is every percent
\* of 21..100 that does not read back as itself: each lands on 0x00..0x28
\* and reads back as a percent of the attenuation range, 20 at most.
C14_LegacyExactAt20FailsAbove ==
    \A t \in Callers :
        /\ GainReadBack(t, 20)
              => (th[t].out = 20 /\ data.input_gain = 20 /\ regs[<<0, 83>>] = 0)
        /\ \A p \in 21..100 :
              GainReadBack(t, p)
              => (th[t].out # p /\ th[t].out <= 20 /\ regs[<<0, 83>>] <= 40)

\* 20 was written with the curve of the earlier revision, which put 0x00 in
\* the ADC registers, and 20 was read back
C14_Witness ==
    \E t \in Callers :
        /\ GainReadBack(t, 20)
        /\ th[t].log[2].ret = 0
        /\ th[t].out = 20
        /\ th[t].prev.ret = 3

\* caller t has written the int p to volume_level with success
VolumeStored(t, p) ==
    /\ Done(t, "volume_level_store") /\ th[t].ret > 0
    /\ th[t].arg = <<p>>

\* output level, in steps of 0.5 dB, of a driver byte and a DAC byte
Level(hp_val, dac_val) == 2 * hp_gain_dB(gain_bits(hp_val)) + dac_val_half_dB(dac_val)

\* C16: when p and p + 1 are in the same tier, the output level of the
\* bytes written for p is not above the level of the bytes of p + 1, the
\* driver gain read in dB and the DAC byte as its signed trim.
C16_LevelNeverFallsWithinTier ==
    \A t \in Callers :
        \A p \in 1..99 :
            (VolumeStored(t, p) /\ Tier(p) = Tier(p + 1))
            => Level(regs[<<1, 16>>], regs[<<0, 65>>])
                  <= Level(set_volume_hp_val(p + 1), set_volume_dac_val(p + 1))

\* C17: for p in 1..20 the driver registers hold 0x3A - floor((p-1)*0x3A/19),
\* unmuted, and the DAC registers 0xA0; for p in 21..60 the driver registers
\* hold floor((p-21)*0x14/39) and the DAC registers 0x00.
C17_LowAndMiddleTierBytes ==
    \A t \in Callers :
        \A p \in 1..60 :
            VolumeStored(t, p)
            => /\ \A a \in HpRegs :
                     /\ regs[a] = IF p <= 20 THEN 58 - (((p - 1) * 58) \div 19)
                                            ELSE ((p - 21) * 20) \div 39
                     /\ ~mute_bit(regs[a])
               /\ \A a \in DacRegs : regs[a] = IF p <= 20 THEN 160 ELSE 0
               /\ p = 1 => regs[<<1, 16>>] = 58
               /\ p \in {20, 21} => regs[<<1, 16>>] = 0
               /\ p = 60 => regs[<<1, 16>>] = 20

\* 60 was written and the driver registers hold 0x14
C17_Witness ==
    \E t \in Callers :
        VolumeStored(t, 60) /\ regs[<<1, 16>>] = 20 /\ regs[<<0, 65>>] = 0

\* C18 as claimed: the driver byte is 0x14 at p = 61, does not fall and
\* reaches 0x1D at p = 90, and it is 0x1D for every p in 91..100.
C18_DriverByteTopFrom90 ==
    \A t \in Callers :
        \A p \in 61..100 :
            VolumeStored(t, p)
            => /\ p = 61 => regs[<<1, 16>>] = 20
               /\ regs[<<1, 16>>] <= set_volume_hp_val(Min(p + 1, 100))
               /\ p >= 90 => regs[<<1, 16>>] = 29

\* C18 as the code has it: one line runs over the whole of 61..100; the
\* driver registers hold 0x14 + floor((p-61)*9/39), which is 0x14 at p = 61,
\* 0x1A at p = 90 and at p = 91, and 0x1D at p = 100 only.
C18_DriverByteLinearTo100 ==
    \A t \in Callers :
        \A p \in 61..100 :
            VolumeStored(t, p)
            => /\ \A a \in HpRegs : regs[a] = 20 + (((p - 61) * 9) \div 39)
               /\ p = 61 => regs[<<1, 16>>] = 20
               /\ p \in {90, 91} => regs[<<1, 16>>] = 26
               /\ p < 100 => regs[<<1, 16>>] < 29
               /\ p = 100 => regs[<<1, 16>>] = 29

\* 90 was written and the driver registers hold 0x1A
C18_Witness ==
    \E t \in Callers :
        VolumeStored(t, 90) /\ regs[<<1, 16>>] = 26 /\ regs[<<1, 19>>] = 26

\* C19: the DAC registers hold 0x00 for p in 61..90 and
\* 0x04 + floor((p-91)*(0x10-0x04)/9) for p in 91..100: 0x04 at 91, 0x10 at
\* 100, within 0x04..0x10.
C19_DacByteOfTopTiers ==
    \A t \in Callers :
        \A p \in 61..100 :
            VolumeStored(t, p)
            => \A a \in DacRegs :
                  /\ p <= 90 => regs[a] = 0
                  /\ p >= 91 => /\ regs[a] = 4 + (((p - 91) * 12) \div 9)
                                /\ regs[a] >= 4 /\ regs[a] <= 16
                  /\ p = 91 => regs[a] = 4
                  /\ p = 100 => regs[a] = 16

\* 95 was written and the DAC registers hold 0x09
C19_Witness ==
    \E t \in Callers :
        VolumeStored(t, 95) /\ regs[<<0, 65>>] = 9 /\ regs[<<0, 66>>] = 9

\* C20: for every driver byte and DAC byte, a read of volume_level gives
\* 0 when the mute bit is set; else 91..100 from the DAC byte when that is
\* in 0x04..0x10, whatever the driver byte; else 61..90 from the gain bits
\* when they are in 0x14..0x1D, capped at 90, whatever the DAC byte; else
\* 21..60 from the gain bits when they are at most 0x14 and the DAC byte is
\* 0x00; else 1..20 from the gain bits when they are at most 0x3A and the
\* DAC byte is 0xA0; else a guess from the gain bits alone, which is 20 when
\* they are above 0x1D.
C20_DecodePriority ==
    \A t \in Callers :
        (Done(t, "volume_level_show") /\ th[t].ret > 0)
        => LET hp == regs[<<1, 16>>] % 64
               dac == regs[<<0, 65>>]
               v == th[t].out
           IN  /\ data.volume = v
               /\ IF (regs[<<1, 16>>] \div 64) % 2 = 1 THEN v = 0
                  ELSE IF dac \in 4..16
                       THEN v = 91 + (((dac - 4) * 9) \div 12) /\ v \in 91..100
                  ELSE IF hp \in 20..29
                       THEN v = Min(90, 61 + (((hp - 20) * 39) \div 9)) /\ v \in 61..90
                  ELSE IF hp <= 20 /\ dac = 0
                       THEN v = 21 + ((hp * 39) \div 20) /\ v \in 21..60
                  ELSE IF hp <= 58 /\ dac = 160
                       THEN v = 1 + (((58 - hp) * 19) \div 58) /\ v \in 1..20
                  ELSE IF hp > 29 THEN v = 20
                  ELSE v = 21 + ((hp * 39) \div 20)

\* volume_level was read with 0x1D in the driver register and 0xA0 in the
\* DAC register: the driver tier won over the low tier and gave 90
C20_Witness ==
    \E t \in Callers :
        /\ Done(t, "volume_level_show") /\ th[t].ret > 0
        /\ regs[<<1, 16>>] = 29 /\ regs[<<0, 65>>] = 160
        /\ th[t].out = 90

\* caller t has written the int p to input_gain with success
GainStored(t, p) ==
    /\ Done(t, "input_gain_store") /\ th[t].ret > 0
    /\ th[t].arg = <<p>>

\* C21: a write of p in 0..19 to input_gain leaves 0x68 - floor(p*(0x68-0x29)/19)
\* in the ADC registers, within 0x29..0x68, and a write of p in 20..100
\* leaves floor((p-20)*0x28/80), within 0x00..0x28, so no byte is written
\* from both sides; the read that follows gives a value below 20 in the
\* first case and of at least 20 in the second.
C21_GainRangesDisjoint ==
    \A t \in Callers :
        \A p \in 0..100 :
            /\ GainStored(t, p)
               => \A a \in AdcRegs :
                     IF p < 20
                     THEN regs[a] = 104 - ((p * (104 - 41)) \div 19) /\ regs[a] \in 41..104
                     ELSE regs[a] = ((p - 20) * 40) \div 80 /\ regs[a] \in 0..40
            /\ GainReadBack(t, p)
               => /\ (p < 20) = (regs[<<0, 83>>] \in 41..104)
                  /\ (p < 20) = (th[t].out < 20)
                  /\ (p < 20) = (data.input_gain < 20)

\* 100 was written, which lands on the last byte 0x28 of the boost range,
\* and read back as at least 20
C21_Witness ==
    \E t \in Callers :
        GainReadBack(t, 100) /\ regs[<<0, 83>>] = 40 /\ th[t].out >= 20

\* the transactions of the set_volume that caller t runs or ran last, which
\* in probe come after those of the init table
SetVolumeLog(t) ==
    IF th[t].op = "probe"
    THEN SubSeq(th[t].log, Len(init_sequence) + 1,
                Min(Len(th[t].log), Len(init_sequence) + 8))
    ELSE th[t].log

InSetVolume(t) ==
    \/ th[t].op = "volume_level_store"
    \/ th[t].op = "probe" /\ th[t].phase \in {"set_volume", "call_set_input_gain",
                                               "set_input_gain", "unwind", "done"}

\* C22: what set_volume has sent to the bus is at every moment a prefix of
\* page-select 1, the headphone byte to 0x10, 0x11, 0x12, 0x13, page-select
\* 0, the DAC byte to 0x41, 0x42, in which only the last transaction may
\* have failed; a set_volume that returned success has sent all eight; and
\* every write to 0x10..0x13 comes before every write to 0x41 or 0x42.
C22_SetVolumeWriteOrder ==
    \A t \in Callers :
        InSetVolume(t)
        => LET log == SetVolumeLog(t)
               hp == th[t].hp_val
               dac == th[t].dac_val
               want == << <<0, 1>>, <<16, hp>>, <<17, hp>>, <<18, hp>>, <<19, hp>>,
                          <<0, 0>>, <<65, dac>>, <<66, dac>> >>
           IN  /\ Len(log) <= 8
               /\ \A i \in 1..Len(log) :
                     /\ log[i].rw = "w"
                     /\ <<log[i].reg, log[i].val>> = want[i]
                     /\ i < Len(log) => log[i].ret = 0
               /\ (Done(t, "volume_level_store") /\ th[t].ret > 0)
                  => (Len(log) = 8 /\ log[8].ret = 0)
               /\ \A i, j \in 1..Len(log) :
                     (log[i].reg \in 16..19 /\ log[j].reg \in 65..66) => i < j

\* a write to volume_level failed at the first DAC register, after the
\* four headphone-group registers had taken the byte of 40
C22_Witness ==
    \E t \in Callers :
        /\ Done(t, "volume_level_store") /\ th[t].ret < 0
        /\ Len(th[t].log) = 7 /\ th[t].log[7].reg = 65 /\ th[t].log[7].ret < 0
        /\ \A a \in HpRegs : regs[a] = 9

\* the page selected by the transactions log[1..i-1] alone: the value of
\* the last page-select among them that succeeded, or -1 when there is none
LogPage(log, i) ==
    LET sel == {m \in 1..(i - 1) :
                   log[m].rw = "w" /\ log[m].reg = 0 /\ log[m].ret = 0}
    IN  IF sel = {} THEN 0 - 1
        ELSE log[CHOOSE m \in sel : \A x \in sel : x <= m].val

SysfsOps ==
    {"volume_level_store", "volume_level_show", "input_gain_store",
     "input_gain_show", "register_access_store", "register_access_show"}

\* C23: in every sysfs operation each access to a register other than 0x00
\* comes after a page-select of the same operation; a read returns the byte
\* held at the page the operation selected last, a write lands there and
\* nowhere else, and the page left selected is the one the operation
\* selected last: the page selected at entry plays no part.
C23_PageSelectedByTheOperation ==
    \A t \in Callers :
        th[t].op \in SysfsOps
        => LET log == th[t].log
               old == th[t].regs0
               At(i) == <<LogPage(log, i), log[i].reg>>
               Hits(a) == {m \in 1..Len(log) :
                              /\ log[m].rw = "w" /\ log[m].ret = 0
                              /\ log[m].reg # 0 /\ At(m) = a}
           IN  /\ \A i \in 1..Len(log) :
                     log[i].reg # 0
                     => /\ LogPage(log, i) # 0 - 1
                        /\ (log[i].rw = "r" /\ log[i].ret >= 0)
                           => log[i].ret = IF At(i) \in DOMAIN old
                                           THEN old[At(i)] ELSE 0
               /\ regs # old
                  => \A a \in DOMAIN regs : regs[a] # old[a] => Hits(a) # {}
               /\ \A i \in 1..Len(log) :
                     (At(i) \in DOMAIN regs /\ i \in Hits(At(i))
                         /\ \A m \in Hits(At(i)) : m <= i)
                     => regs[At(i)] = log[i].val
               /\ Len(log) > 0
                  => page = IF LogPage(log, Len(log) + 1) = 0 - 1
                            THEN th[t].page0
                            ELSE LogPage(log, Len(log) + 1)

\* input_gain was read while page 1 was selected, left there by a raw
\* write, and the byte read is the one of page 0 register 0x53
C23_Witness ==
    \E t \in Callers :
        /\ Done(t, "input_gain_show") /\ th[t].ret > 0
        /\ th[t].page0 = 1 /\ th[t].prev.op = "register_access_store"
        /\ th[t].log[2].ret = regs[<<0, 83>>]
        /\ page = 0

\* C24: in a probe every write to a register other than 0x00 comes after a
\* page-select of the same probe, and a register differs from what it held
\* when probe was entered only if probe wrote it on a page probe itself
\* had selected.
C24_InitStepsFollowAPageSelect ==
    \A t \in Callers :
        th[t].op = "probe"
        => LET log == th[t].log
           IN  /\ \A i \in 1..Len(log) :
                     log[i].reg # 0 => LogPage(log, i) # 0 - 1
               /\ \A a \in DOMAIN regs :
                     regs[a] # th[t].regs0[a]
                     => \E i \in 1..Len(log) :
                           /\ log[i].ret = 0 /\ log[i].reg = a[2]
                           /\ LogPage(log, i) = a[1]

\* C25: for every p in 0..100, volume_level read right after p was written
\* to it is in the tier of p (0, 1..20, 21..60, 61..90, 91..100).
C25_ReadBackInTierOfEveryPercent ==
    \A t \in Callers :
        \A p \in 0..100 :
            VolumeReadBack(t, p)
            => /\ Tier(th[t].out) = Tier(p)
               /\ Tier(data.volume) = Tier(p)

\* C26: when the number read from volume_level is written back to it, the
\* driver registers and the DAC registers hold the same bytes as before.
C26_WriteBackKeepsBytes ==
    \A t \in Callers :
        (/\ Done(t, "volume_level_store") /\ th[t].ret > 0
         /\ th[t].prev.op = "volume_level_show" /\ th[t].prev.ret > 0
         /\ th[t].arg = <<th[t].prev.out>>)
        => \A a \in HpRegs \cup DacRegs : regs[a] = th[t].regs0[a]

\* C27: for p in 1..100 the byte in the driver registers has the mute bit
\* clear and gain bits in 0x00..0x1D or in 0x3A..0x3F.
C27_DriverByteInDocumentedRange ==
    \A t \in Callers :
        \A p \in 1..100 :
            VolumeStored(t, p)
            => \A a \in HpRegs :
                  /\ (regs[a] \div 64) % 2 = 0
                  /\ regs[a] % 64 \in (0..29) \cup (58..63)

\* C28: the cached volume and the cached input gain are in 0..100 in every
\* state, whatever was written to the attributes, whatever bytes raw writes
\* put into the registers and whichever transaction failed.
C28_CacheInPercentRange ==
    /\ data.volume \in 0..100
    /\ data.input_gain \in 0..100

\* input_gain was read after a raw write had put 0x30, a byte set_input_gain
\* never writes, into the ADC register
C28_Witness ==
    \E t \in Callers :
        /\ Done(t, "input_gain_show") /\ th[t].ret > 0
        /\ th[t].prev.op = "register_access_store" /\ th[t].prev.ret > 0
        /\ regs[<<0, 83>>] = 48
        /\ data.input_gain = 16

\* caller t has written value to register reg of page pg through
\* register_access with success
RawStored(t, pg, reg, value) ==
    /\ Done(t, "register_access_store") /\ th[t].ret > 0
    /\ th[t].arg = <<pg, reg, value>>

\* caller t has read register reg of page pg through register_access right
\* after it wrote value to it, both with success
RawReadBack(t, pg, reg, value) ==
    /\ Done(t, "register_access_show") /\ th[t].ret > 0
    /\ th[t].arg = <<pg, reg>>
    /\ th[t].prev.op = "register_access_store" /\ th[t].prev.ret > 0
    /\ th[t].prev.arg = <<pg, reg, value>>

C30_GainReadBackWithinOne ==
    \A t \in Callers :
        \A p \in 0..100 :
            GainReadBack(t, p)
            => /\ p - 1 <= th[t].out /\ th[t].out <= p
               /\ th[t].out >= 0
               /\ data.input_gain = th[t].out

\* 7 was written, which lands on register value 0x51, and read back as 6
C30_Witness ==
    \E t \in Callers : GainReadBack(t, 7) /\ regs[<<0, 83>>] = 81 /\ th[t].out = 6

====
